---- MODULE Spec2Model ----
(***************************************************************************)
(* Language module registry and debug configuration generation of          *)
(* vscode-tingly-debug: the registry (modules/registry), the three built-in*)
(* language modules (python, golang, javascript) and their generators.     *)
(* Strings are TLA+ strings; the JavaScript string methods the code uses   *)
(* are defined below with their JavaScript meaning (0-based indices).      *)
(***************************************************************************)
EXTENDS Integers, Sequences, FiniteSets, TLC

(***************************************************************************)
(* JavaScript string primitives                                            *)
(***************************************************************************)
Min(a, b) == IF a < b THEN a ELSE b

Max(a, b) == IF a < b THEN b ELSE a

\* s.substring(a, b): both ends clamped to [0, length], swapped when a > b
Substring(s, a, b) ==
    LET ca == Max(0, Min(a, Len(s)))
        cb == Max(0, Min(b, Len(s)))
    IN  SubSeq(s, Min(ca, cb) + 1, Max(ca, cb))

\* s.substring(a)
SubstringFrom(s, a) == Substring(s, a, Len(s))

\* s.startsWith(p)
StartsWith(s, p) == Len(p) <= Len(s) /\ SubSeq(s, 1, Len(p)) = p

\* s.endsWith(p)
EndsWith(s, p) == Len(p) <= Len(s) /\ SubSeq(s, Len(s) - Len(p) + 1, Len(s)) = p

\* s.indexOf(p): 0-based index of the first occurrence, -1 when there is none
IndexOf(s, p) ==
    LET hits == { i \in 0..(Len(s) - Len(p)) : SubSeq(s, i + 1, i + Len(p)) = p }
    IN  IF hits = {} THEN -1 ELSE CHOOSE i \in hits : \A j \in hits : i <= j

\* s.lastIndexOf(p): 0-based index of the last occurrence, -1 when there is none
LastIndexOf(s, p) ==
    LET hits == { i \in 0..(Len(s) - Len(p)) : SubSeq(s, i + 1, i + Len(p)) = p }
    IN  IF hits = {} THEN -1 ELSE CHOOSE i \in hits : \A j \in hits : j <= i

\* s.includes(p) on strings
Includes(s, p) == IndexOf(s, p) # -1

\* s.replace(p, r) with a string pattern: only the first occurrence is replaced
ReplaceFirst(s, p, r) ==
    LET i == IndexOf(s, p)
    IN  IF i = -1 THEN s
        ELSE Substring(s, 0, i) \o r \o SubstringFrom(s, i + Len(p))

\* s.replace(/^\//, '')
StripLeadingSlash(s) == IF StartsWith(s, "/") THEN SubstringFrom(s, 1) ELSE s

\* s.replace(/^[\/\\]/, '')
StripLeadingSep(s) ==
    IF StartsWith(s, "/") \/ StartsWith(s, "\\") THEN SubstringFrom(s, 1) ELSE s

\* s.split(/[\/\\]/).pop() || ''
BaseName(s) == SubstringFrom(s, Max(LastIndexOf(s, "/"), LastIndexOf(s, "\\")) + 1)

\* array.includes(x)
SeqIncludes(seq, x) == \E i \in 1..Len(seq) : seq[i] = x

\* array.join(sep)
RECURSIVE Join(_, _)
Join(seq, sep) ==
    IF Len(seq) = 0 THEN ""
    ELSE IF Len(seq) = 1 THEN seq[1]
    ELSE seq[1] \o sep \o Join(Tail(seq), sep)

\* s.toLowerCase(), for the letters of the basic Latin alphabet
RECURSIVE ToLowerCase(_)
ToLowerCase(s) ==
    IF Len(s) = 0 THEN ""
    ELSE LET i == IndexOf("ABCDEFGHIJKLMNOPQRSTUVWXYZ", SubSeq(s, 1, 1))
         IN  ( IF i = -1 THEN SubSeq(s, 1, 1)
               ELSE SubSeq("abcdefghijklmnopqrstuvwxyz", i + 1, i + 1) )
             \o ToLowerCase(SubSeq(s, 2, Len(s)))

\* the value of a property that is set to undefined
Undefined == [undefined |-> TRUE]

(***************************************************************************)
(* The editor's workspace, as the vscode API shows it to the modules       *)
(***************************************************************************)
\* the folder opened in the editor when the registry is exercised
WorkspaceFolder == "/workspace"

\* vscode.workspace.asRelativePath(p), the opened folder being `folder`: p
\* relative to the folder when p lies inside it, p unchanged otherwise
AsRelativePath(p, folder) ==
    IF folder # "" /\ (StartsWith(p, folder \o "/") \/ StartsWith(p, folder \o "\\"))
    THEN SubstringFrom(p, Len(folder) + 1)
    ELSE p

\* a file-name glob with at most one '*': prefix*suffix
GlobName(g, name) ==
    LET star == IndexOf(g, "*")
    IN  IF star = -1 THEN name = g
        ELSE /\ Len(name) >= Len(g) - 1
             /\ StartsWith(name, Substring(g, 0, star))
             /\ EndsWith(name, SubstringFrom(g, star + 1))

\* does the workspace-relative file f match the glob pattern of a framework:
\*   **/dir/**  any file below a directory named dir, at any depth
\*   **/name    a file whose name matches, at any depth
\*   name       a file of the workspace root whose name matches
GlobMatches(pattern, f) ==
    IF StartsWith(pattern, "**/") /\ EndsWith(pattern, "/**")
    THEN LET dir == Substring(pattern, 3, Len(pattern) - 3)
         IN  StartsWith(f, dir \o "/") \/ Includes(f, "/" \o dir \o "/")
    ELSE IF StartsWith(pattern, "**/")
    THEN GlobName(SubstringFrom(pattern, 3), BaseName(f))
    ELSE ~Includes(f, "/") /\ GlobName(pattern, f)

\* vscode.workspace.findFiles(pattern, null, 1) on the file set fs: at most
\* one matching file
FindFiles(pattern, fs) ==
    LET found == { f \in fs : GlobMatches(pattern, f) }
    IN  IF found = {} THEN {} ELSE { CHOOSE f \in found : TRUE }

(***************************************************************************)
(* golang module (modules/golang)                                          *)
(***************************************************************************)
GoEnv == [GOPATH |-> "${workspaceFolder}", GO111MODULE |-> "on"]

\* variant: the file name is not looked at
isGoTestFunctionByName(symbol) ==
    \/ StartsWith(symbol.name, "Test")
    \/ StartsWith(symbol.name, "Benchmark")
    \/ StartsWith(symbol.name, "Example")

isGoTestFunction(symbol) ==
    LET isTestFile == EndsWith(symbol.filePath, "_test.go")
        isTestSymbol == \/ StartsWith(symbol.name, "Test")
                        \/ StartsWith(symbol.name, "Benchmark")
                        \/ StartsWith(symbol.name, "Example")
    IN  isTestFile /\ isTestSymbol

isGoMainFunction(symbol) ==
    symbol.name = "main" /\ SeqIncludes(symbol.path, "main")

\* variant: the directory is never rewritten relative to the workspace
getFileDirectoryPathAbsolute(filePath, workspaceRoot) ==
    LET dirPath == Substring(filePath, 0, LastIndexOf(filePath, "/"))
    IN  IF dirPath = filePath THEN "${workspaceFolder}" ELSE dirPath

getFileDirectoryPath(filePath, workspaceRoot) ==
    LET dirPath == Substring(filePath, 0, LastIndexOf(filePath, "/"))
    IN  IF dirPath = filePath THEN "${workspaceFolder}"
        ELSE IF workspaceRoot # "" /\ StartsWith(filePath, workspaceRoot)
        THEN LET relativePath ==
                     StripLeadingSlash(SubstringFrom(filePath, Len(workspaceRoot)))
                 relativeDirPath ==
                     Substring(relativePath, 0, LastIndexOf(relativePath, "/"))
             IN  IF relativeDirPath # ""
                 THEN "${workspaceFolder}/" \o relativeDirPath
                 ELSE "${workspaceFolder}"
        ELSE dirPath

\* variant: the branch for a plain symbol attaches instead of launching
generateGoDebugConfigAttach(symbol) ==
    LET fileDirPath == getFileDirectoryPath(symbol.filePath, symbol.workspaceRoot)
    IN  IF isGoTestFunction(symbol)
        THEN [name |-> "Go Test: " \o symbol.name,
              type |-> "go", request |-> "launch", mode |-> "test",
              program |-> fileDirPath,
              args |-> <<"-test.run", "^" \o symbol.name \o "$", "-test.v">>,
              env |-> GoEnv]
        ELSE IF isGoMainFunction(symbol)
        THEN [name |-> "Go Debug: " \o symbol.name \o " (" \o fileDirPath \o ")",
              type |-> "go", request |-> "launch", mode |-> "debug",
              program |-> fileDirPath,
              env |-> GoEnv]
        ELSE [name |-> "Go Debug: " \o symbol.name \o " (" \o fileDirPath \o ")",
              type |-> "go", request |-> "attach", mode |-> "auto",
              program |-> fileDirPath,
              env |-> GoEnv]

generateGoDebugConfig(symbol) ==
    LET fileDirPath == getFileDirectoryPath(symbol.filePath, symbol.workspaceRoot)
    IN  IF isGoTestFunction(symbol)
        THEN [name |-> "Go Test: " \o symbol.name,
              type |-> "go", request |-> "launch", mode |-> "test",
              program |-> fileDirPath,
              args |-> <<"-test.run", "^" \o symbol.name \o "$", "-test.v">>,
              env |-> GoEnv]
        ELSE IF isGoMainFunction(symbol)
        THEN [name |-> "Go Debug: " \o symbol.name \o " (" \o fileDirPath \o ")",
              type |-> "go", request |-> "launch", mode |-> "debug",
              program |-> fileDirPath,
              env |-> GoEnv]
        ELSE [name |-> "Go Debug: " \o symbol.name \o " (" \o fileDirPath \o ")",
              type |-> "go", request |-> "launch", mode |-> "auto",
              program |-> fileDirPath,
              env |-> GoEnv]

goTestConfig(symbol) ==
    LET fileDirPath == getFileDirectoryPath(symbol.filePath, symbol.workspaceRoot)
    IN  [framework |-> "go-test", testCommand |-> "go test",
         args |-> IF isGoTestFunction(symbol)
                  THEN <<"-run", "^" \o symbol.name \o "$", "-v", fileDirPath>>
                  ELSE <<"-v", fileDirPath>>,
         cwd |-> fileDirPath,
         env |-> GoEnv]

goDefaultConfig(filePath, workspaceRoot) ==
    LET fileName == BaseName(filePath)
        fileDirPath == getFileDirectoryPath(filePath, workspaceRoot)
    IN  IF fileName = "main.go"
        THEN [name |-> "Launch file",
              type |-> "go", request |-> "launch", mode |-> "debug",
              program |-> "${file}",
              env |-> GoEnv]
        ELSE IF EndsWith(fileName, "_test.go")
        THEN [name |-> "Go: Launch Tests",
              type |-> "go", request |-> "launch", mode |-> "test",
              program |-> fileDirPath,
              args |-> <<"-test.v">>,
              env |-> GoEnv]
        ELSE [name |-> "Go: Launch Package (" \o fileDirPath \o ")",
              type |-> "go", request |-> "launch", mode |-> "auto",
              program |-> fileDirPath,
              env |-> GoEnv]

(***************************************************************************)
(* python module (modules/python)                                          *)
(***************************************************************************)
\* variant: the reference is built the way the unittest framework builds its
\* own, a dotted path without the first segment
pytestDebugConfigDotted(symbol) ==
    [name |-> "pytest: " \o symbol.name,
     type |-> "python", request |-> "launch", module |-> "pytest",
     args |-> <<"-s", "-v",
                AsRelativePath(symbol.filePath, WorkspaceFolder)
                \o "." \o Join(IF Len(symbol.path) = 0 THEN <<>> ELSE Tail(symbol.path), ".")>>,
     cwd |-> "${workspaceFolder}",
     env |-> [PYTHONPATH |-> "${workspaceFolder}"],
     console |-> "integratedTerminal",
     justMyCode |-> FALSE]

pytestDebugConfig(symbol) ==
    [name |-> "pytest: " \o symbol.name,
     type |-> "python", request |-> "launch", module |-> "pytest",
     args |-> <<"-s", "-v",
                AsRelativePath(symbol.filePath, WorkspaceFolder)
                \o "::" \o Join(symbol.path, "::")>>,
     cwd |-> "${workspaceFolder}",
     env |-> [PYTHONPATH |-> "${workspaceFolder}"],
     console |-> "integratedTerminal",
     justMyCode |-> FALSE]

pytestTestConfig(symbol) ==
    [framework |-> "pytest", testCommand |-> "pytest",
     args |-> <<"-s", "-v",
                AsRelativePath(symbol.filePath, WorkspaceFolder)
                \o "::" \o Join(symbol.path, "::")>>,
     env |-> [PYTHONPATH |-> "${workspaceFolder}"],
     cwd |-> "${workspaceFolder}"]

unittestDebugConfig(symbol) ==
    [name |-> "unittest: " \o symbol.name,
     type |-> "python", request |-> "launch", module |-> "unittest",
     args |-> <<ReplaceFirst(AsRelativePath(symbol.filePath, WorkspaceFolder),
                             ".py", "")
                \o "." \o Join(IF Len(symbol.path) = 0 THEN <<>> ELSE Tail(symbol.path), ".")>>,
     cwd |-> "${workspaceFolder}",
     console |-> "integratedTerminal",
     justMyCode |-> TRUE]

\* variant: the program is the file path as given
pythonDefaultConfigAbsolute(filePath, workspaceRoot) ==
    [name |-> "Python: Current File",
     type |-> "python", request |-> "launch",
     program |-> filePath,
     console |-> "integratedTerminal",
     justMyCode |-> TRUE,
     cwd |-> "${workspaceFolder}"]

pythonDefaultConfig(filePath, workspaceRoot) ==
    LET relativePath == StripLeadingSep(ReplaceFirst(filePath, workspaceRoot, ""))
    IN  [name |-> "Python: Current File",
         type |-> "python", request |-> "launch",
         program |-> "${workspaceFolder}/" \o relativePath,
         console |-> "integratedTerminal",
         justMyCode |-> TRUE,
         cwd |-> "${workspaceFolder}"]

(***************************************************************************)
(* javascript module (modules/javascript)                                  *)
(***************************************************************************)
TsLoaderArgs == <<"-r", "ts-node/register">>

TsProjectEnv == [TS_NODE_PROJECT |-> "${workspaceFolder}/tsconfig.json"]

jestDebugConfig(symbol) ==
    LET isTypeScript == EndsWith(symbol.filePath, ".ts") \/ EndsWith(symbol.filePath, ".tsx")
    IN  [name |-> "Jest: " \o symbol.name,
         type |-> "node", request |-> "launch",
         program |-> "${workspaceFolder}/node_modules/.bin/jest",
         args |-> <<"--runInBand", "--testNamePattern", symbol.name>>,
         cwd |-> "${workspaceFolder}",
         console |-> "integratedTerminal",
         env |-> IF isTypeScript THEN TsProjectEnv ELSE Undefined,
         runtimeArgs |-> IF isTypeScript THEN TsLoaderArgs ELSE Undefined,
         windows |-> [program |-> "${workspaceFolder}/node_modules/jest/bin/jest"]]

jestTestConfig(symbol) ==
    [framework |-> "jest", testCommand |-> "jest",
     args |-> <<"--runInBand", "--testNamePattern", symbol.name>>,
     cwd |-> "${workspaceFolder}"]

mochaDebugConfig(symbol) ==
    [name |-> "Mocha: " \o symbol.name,
     type |-> "node", request |-> "launch",
     program |-> "${workspaceFolder}/node_modules/.bin/mocha",
     args |-> <<"--grep", symbol.name>>,
     cwd |-> "${workspaceFolder}",
     console |-> "integratedTerminal",
     runtimeArgs |-> IF EndsWith(symbol.filePath, ".ts") THEN TsLoaderArgs ELSE Undefined,
     env |-> IF EndsWith(symbol.filePath, ".ts") THEN TsProjectEnv ELSE Undefined]

mochaTestConfig(symbol) ==
    [framework |-> "mocha", testCommand |-> "mocha",
     args |-> <<"--grep", symbol.name>>,
     cwd |-> "${workspaceFolder}"]

javascriptDefaultConfig(filePath, workspaceRoot) ==
    LET relativePath == StripLeadingSep(ReplaceFirst(filePath, workspaceRoot, ""))
        isTypeScript == EndsWith(filePath, ".ts") \/ EndsWith(filePath, ".tsx")
    IN  [name |-> IF isTypeScript THEN "Node.js: TypeScript File"
                  ELSE "Node.js: JavaScript File",
         type |-> "node", request |-> "launch",
         program |-> "${workspaceFolder}/" \o relativePath,
         cwd |-> "${workspaceFolder}",
         console |-> "integratedTerminal",
         runtimeArgs |-> IF isTypeScript THEN TsLoaderArgs ELSE Undefined,
         env |-> IF isTypeScript THEN TsProjectEnv ELSE Undefined]

(***************************************************************************)
(* Modules a third party registers.  golangReloaded replaces the built-in  *)
(* Go module under the key "go": it lists its frameworks lowest priority   *)
(* first, two of them with the same priority, and the preferred one has no *)
(* testConfig.  rustModule adds a                                          *)
(* language, has no framework at all and declares its file extension in    *)
(* upper case.                                                             *)
(***************************************************************************)
reloadedDebugConfig(fw, symbol) ==
    [name |-> fw \o ": " \o symbol.name, type |-> "go", request |-> "launch",
     mode |-> IF fw = "go-bench" THEN "test" ELSE "exec",
     program |-> "${fileDirname}"]

reloadedTestConfig(symbol) ==
    [framework |-> "go-run", testCommand |-> "go",
     args |-> <<"vet", "./...">>, cwd |-> "${workspaceFolder}"]

reloadedDefaultConfig(filePath, workspaceRoot) ==
    [name |-> "Go (reloaded): " \o BaseName(filePath),
     type |-> "go", request |-> "launch", mode |-> "auto",
     program |-> "${fileDirname}"]

rustDefaultConfig(filePath, workspaceRoot) ==
    [name |-> "Rust: " \o BaseName(filePath), type |-> "lldb", request |-> "launch",
     program |-> "${workspaceFolder}/target/debug/"
                 \o ReplaceFirst(BaseName(filePath), ".rs", ""),
     cwd |-> "${workspaceFolder}"]

(***************************************************************************)
(* The catalog: LanguageFramework and LanguageModule values                *)
(***************************************************************************)
None == "none"

FrameworkIds == {"pytest", "unittest", "go-test", "go-main", "jest", "mocha",
                 "go-run", "go-bench", "go-fuzz"}

Framework(fw) ==
    CASE fw = "pytest" ->
           [name |-> "pytest", priority |-> 10, hasTestConfig |-> TRUE,
            filePatterns |-> <<"**/test_*.py", "**/*_test.py", "**/tests/**",
                               "**/conftest.py", "pytest.ini", "pyproject.toml",
                               "setup.cfg">>]
      [] fw = "unittest" ->
           [name |-> "unittest", priority |-> 5, hasTestConfig |-> FALSE,
            filePatterns |-> <<"**/test_*.py", "**/*_test.py", "**/tests/**">>]
      [] fw = "go-test" ->
           [name |-> "go-test", priority |-> 10, hasTestConfig |-> TRUE,
            filePatterns |-> <<"**/*_test.go", "go.mod", "go.sum">>]
      [] fw = "go-main" ->
           [name |-> "go-main", priority |-> 8, hasTestConfig |-> FALSE,
            filePatterns |-> <<"**/main.go", "go.mod">>]
      [] fw = "jest" ->
           [name |-> "jest", priority |-> 10, hasTestConfig |-> TRUE,
            filePatterns |-> <<"**/*.test.js", "**/*.test.ts", "**/*.spec.js",
                               "**/*.spec.ts", "**/test/**", "**/tests/**",
                               "jest.config.*", "package.json">>]
      [] fw = "mocha" ->
           [name |-> "mocha", priority |-> 5, hasTestConfig |-> TRUE,
            filePatterns |-> <<"**/test/**", "**/tests/**", "*test.js", "*test.ts",
                               "*spec.js", "*spec.ts", "mocha.opts">>]
      [] fw = "go-run" ->
           [name |-> "go-run", priority |-> 5, hasTestConfig |-> TRUE,
            filePatterns |-> <<"**/main.go", "go.mod">>]
      [] fw = "go-bench" ->
           [name |-> "go-bench", priority |-> 10, hasTestConfig |-> FALSE,
            filePatterns |-> <<"**/*_test.go", "go.mod">>]
      [] fw = "go-fuzz" ->
           [name |-> "go-fuzz", priority |-> 5, hasTestConfig |-> FALSE,
            filePatterns |-> <<"**/main.go">>]

\* framework.debugConfig(symbol)
FrameworkDebugConfig(fw, symbol) ==
    CASE fw = "pytest" -> pytestDebugConfig(symbol)
      [] fw = "unittest" -> unittestDebugConfig(symbol)
      [] fw \in {"go-test", "go-main"} -> generateGoDebugConfig(symbol)
      [] fw = "jest" -> jestDebugConfig(symbol)
      [] fw = "mocha" -> mochaDebugConfig(symbol)
      [] fw \in {"go-run", "go-bench", "go-fuzz"} -> reloadedDebugConfig(fw, symbol)

\* framework.testConfig(symbol), for the frameworks that define it
FrameworkTestConfig(fw, symbol) ==
    CASE fw = "pytest" -> pytestTestConfig(symbol)
      [] fw = "go-test" -> goTestConfig(symbol)
      [] fw = "jest" -> jestTestConfig(symbol)
      [] fw = "mocha" -> mochaTestConfig(symbol)
      [] fw = "go-run" -> reloadedTestConfig(symbol)

ModuleIds == {"pythonModule", "golangModule", "javascriptModule",
              "golangReloaded", "rustModule"}

\* the module objects; frameworks is the array as written in the module literal
Module(m) ==
    CASE m = "pythonModule" ->
           [language |-> "python", displayName |-> "Python",
            fileExtensions |-> <<"py", "pyw", "py3">>,
            defaultDebugType |-> "python",
            frameworks |-> <<"pytest", "unittest">>]
      [] m = "golangModule" ->
           [language |-> "go", displayName |-> "Go",
            fileExtensions |-> <<"go">>,
            defaultDebugType |-> "go",
            frameworks |-> <<"go-test", "go-main">>]
      [] m = "javascriptModule" ->
           [language |-> "javascript", displayName |-> "JavaScript/TypeScript",
            fileExtensions |-> <<"js", "mjs", "cjs", "ts", "tsx", "jsx">>,
            defaultDebugType |-> "node",
            frameworks |-> <<"jest", "mocha">>]
      [] m = "golangReloaded" ->
           [language |-> "go", displayName |-> "Go (reloaded)",
            fileExtensions |-> <<"go">>,
            defaultDebugType |-> "go",
            frameworks |-> <<"go-run", "go-bench", "go-fuzz">>]
      [] m = "rustModule" ->
           [language |-> "rust", displayName |-> "Rust",
            fileExtensions |-> <<"RS">>,
            defaultDebugType |-> "lldb",
            frameworks |-> <<>>]

\* module.defaultConfig(filePath, workspaceRoot)
ModuleDefaultConfig(m, filePath, workspaceRoot) ==
    CASE m = "pythonModule" -> pythonDefaultConfig(filePath, workspaceRoot)
      [] m = "golangModule" -> goDefaultConfig(filePath, workspaceRoot)
      [] m = "javascriptModule" -> javascriptDefaultConfig(filePath, workspaceRoot)
      [] m = "golangReloaded" -> reloadedDefaultConfig(filePath, workspaceRoot)
      [] m = "rustModule" -> rustDefaultConfig(filePath, workspaceRoot)

Languages == {"python", "go", "javascript", "rust"}

(***************************************************************************)
(* Bounds and inputs of the registry model                                 *)
(***************************************************************************)
\* files of the workspace the probes can find, relative to the opened folder
WorkspaceFiles == {"go.mod", "cmd/main.go", "pkg/math_test.go",
                   "tests/test_example.py", "test_app.py"}

\* at most this many of them exist
MaxFiles == 1

\* at most this many probes of one call throw
MaxProbeFailures == 1

\* at most this many register / unregister calls in a run
MaxRegistryOps == 1

\* the requests that can be in flight
CallIds == {"c1"}

Ops == {"detectFramework", "generateDebugConfig", "generateTestConfig"}

\* the extensions getModuleByExtension is asked about
Extensions == {"go", "GO", "Py", "rs", "RS", "tsx", "txt"}

Sym(name, path, language, filePath, workspaceRoot) ==
    [name |-> name, path |-> path, kind |-> 12, language |-> language,
     filePath |-> filePath, workspaceRoot |-> workspaceRoot]

\* the symbols the upstream symbol discovery hands to the registry
Symbols ==
    { Sym("TestAddition", <<"TestAddition">>, "go",
          "/workspace/pkg/math_test.go", WorkspaceFolder),
      Sym("main", <<"main">>, "go", "/workspace/cmd/app.go", WorkspaceFolder),
      Sym("test_example", <<"TestClass", "test_example">>, "python",
          "/workspace/tests/test_example.py", WorkspaceFolder),
      Sym("it_works", <<"tests", "it_works">>, "rust",
          "/workspace/src/lib.rs", WorkspaceFolder) }

(***************************************************************************)
(* The registry (modules/registry)                                         *)
(***************************************************************************)
VARIABLES
    modules,     \* LanguageModuleRegistry.modules: the Map, entries in insertion order
    frameworks,  \* for each module object, its frameworks array (sorted in place)
    files,       \* the files present in the workspace
    calls,       \* the asynchronous requests: idle, suspended in an await, or done
    regOps,      \* number of register / unregister calls made so far
    launchJson,  \* the launch store: launchJson.configurations, in file order
    panel,       \* the editor's webview panel: open or disposed, the postMessage calls made on it
    handlers,    \* the runs of the panel's message callback: idle, in an await, or done
    sessions,    \* the configurations debug sessions were started with, in order
    received     \* number of messages the webview has sent so far

registryVars == <<modules, frameworks, files, calls, regOps>>

editorVars == <<launchJson, panel, handlers, sessions, received>>

vars == <<registryVars, editorVars>>

\* the runs of the message callback that can be in flight together
HandlerIds == {"h1", "h2"}

HandlerIdle == [pc |-> "idle"]

\* no configuration editor has been opened
EditorNotOpened ==
    /\ launchJson = <<>>
    /\ panel = [open |-> FALSE, launchConfig |-> [name |-> "", program |-> ""],
                posted |-> <<>>]
    /\ handlers = [h \in HandlerIds |-> HandlerIdle]
    /\ sessions = <<>>
    /\ received = 0

\* Map.get(key)
MapGet(map, key) ==
    IF \E i \in 1..Len(map) : map[i].key = key
    THEN (CHOOSE e \in { map[i] : i \in 1..Len(map) } : e.key = key).value
    ELSE None

\* variant: every set adds an entry
MapSetAppend(map, key, value) == Append(map, [key |-> key, value |-> value])

\* Map.set(key, value): an existing key keeps its place, a new one goes last
MapSet(map, key, value) ==
    IF \E i \in 1..Len(map) : map[i].key = key
    THEN [i \in 1..Len(map) |->
            IF map[i].key = key THEN [key |-> key, value |-> value] ELSE map[i]]
    ELSE Append(map, [key |-> key, value |-> value])

\* Map.delete(key)
MapDelete(map, key) == SelectSeq(map, LAMBDA e : e.key # key)

\* getModule(language)
getModule(map, language) == MapGet(map, language)

\* variant: the comparator is a.priority - b.priority
RECURSIVE InsertByPriorityAscending(_, _)
InsertByPriorityAscending(seq, fw) ==
    IF Len(seq) = 0 THEN <<fw>>
    ELSE IF Framework(Head(seq)).priority - Framework(fw).priority > 0
    THEN <<fw>> \o seq
    ELSE <<Head(seq)>> \o InsertByPriorityAscending(Tail(seq), fw)

\* variant: an unstable sort, a framework goes before its equals
RECURSIVE InsertBeforeEquals(_, _)
InsertBeforeEquals(seq, fw) ==
    IF Len(seq) = 0 THEN <<fw>>
    ELSE IF Framework(fw).priority - Framework(Head(seq)).priority >= 0
    THEN <<fw>> \o seq
    ELSE <<Head(seq)>> \o InsertBeforeEquals(Tail(seq), fw)

\* insert framework fw into the priority-descending sequence seq, after every
\* element that does not compare greater than it
RECURSIVE InsertByPriority(_, _)
InsertByPriority(seq, fw) ==
    IF Len(seq) = 0 THEN <<fw>>
    ELSE IF Framework(fw).priority - Framework(Head(seq)).priority > 0
    THEN <<fw>> \o seq
    ELSE <<Head(seq)>> \o InsertByPriority(Tail(seq), fw)

\* variant: the array is used in the order the module lists it
KeepDeclaredOrder(seq) == seq

\* frameworks.sort((a, b) => b.priority - a.priority): stable, descending
RECURSIVE SortByPriority(_)
SortByPriority(seq) ==
    IF Len(seq) = 0 THEN <<>>
    ELSE InsertByPriority(SortByPriority(SubSeq(seq, 1, Len(seq) - 1)), seq[Len(seq)])

\* the next index at or after fi of the array arr whose framework has a pattern
\* to probe (matchesFramework returns false at once for an empty pattern list);
\* 0 when the loop over the frameworks runs out
NextProbe(arr, fi) ==
    LET js == { j \in fi..Len(arr) : Len(Framework(arr[j]).filePatterns) > 0 }
    IN  IF js = {} THEN 0 ELSE CHOOSE j \in js : \A k \in js : j <= k

\* variant: the try block encloses the loop, so a throw ends the framework's loop
PatternsExhaustedOrThrew(pi, patterns, outcome) ==
    outcome = "throw" \/ pi >= Len(patterns)

\* matchesFramework: the loop over framework.filePatterns ends after the last
\* pattern, whatever the probe of a pattern did
PatternsExhausted(pi, patterns, outcome) == pi >= Len(patterns)

\* variant: the registry is read again after the await
CurrentModule(call, map) ==
    IF getModule(map, call.symbol.language) = None THEN call.module
    ELSE getModule(map, call.symbol.language)

\* the module the suspended request works with: the local variable `module`
\* bound before the first await
CapturedModule(call, map) == call.module

\* detectFramework's return value
DetectOutcome(detected) ==
    IF detected # None
    THEN [kind |-> "framework", framework |-> detected]
    ELSE [kind |-> "null"]

\* variant: no fallback to the module's default factory
DebugOutcomeNoFallback(symbol, module, detected) ==
    IF detected # None
    THEN [kind |-> "config", config |-> FrameworkDebugConfig(detected, symbol)]
    ELSE [kind |-> "error", message |-> "No framework detected"]

\* generateDebugConfig after `await this.detectFramework(symbol)`
DebugOutcome(symbol, module, detected) ==
    IF detected # None
    THEN [kind |-> "config", config |-> FrameworkDebugConfig(detected, symbol)]
    ELSE [kind |-> "config",
          config |-> ModuleDefaultConfig(module, symbol.filePath, symbol.workspaceRoot)]

\* variant: testConfig is called without checking that the framework has one
TestOutcomeUnguarded(symbol, detected) ==
    IF detected = None THEN [kind |-> "null"]
    ELSE IF Framework(detected).hasTestConfig
    THEN [kind |-> "testConfig", config |-> FrameworkTestConfig(detected, symbol)]
    ELSE [kind |-> "error", message |-> "framework.testConfig is not a function"]

\* generateTestConfig after `await this.detectFramework(symbol)`
TestOutcome(symbol, detected) ==
    IF detected # None /\ Framework(detected).hasTestConfig
    THEN [kind |-> "testConfig", config |-> FrameworkTestConfig(detected, symbol)]
    ELSE [kind |-> "null"]

\* variant: an absent value instead of the throw
UnregisteredLanguageAsNull(symbol) == [kind |-> "null"]

\* throw new Error(`No module registered for language: ${symbol.language}`)
UnregisteredLanguage(symbol) ==
    [kind |-> "error",
     message |-> "No module registered for language: " \o symbol.language]

Idle == [pc |-> "idle"]

\* a request suspended in `await findFiles(pattern)`: pattern pi of `framework`,
\* which the loop took from index fi of the module's array
Probing(call, fi, fw, pi) ==
    [pc |-> "probing", op |-> call.op, symbol |-> call.symbol, module |-> call.module,
     probes |-> call.probes, log |-> call.log,
     fi |-> fi, framework |-> fw, pi |-> pi]

\* a request suspended in an await that no probe precedes
Resuming(call) ==
    [pc |-> "resuming", op |-> call.op, symbol |-> call.symbol,
     module |-> call.module, probes |-> call.probes, log |-> call.log]

\* a settled request.  log is what the request has written to the console
\* since it started.  replaced records whether the registry held another
\* module (or none) for the language when the request settled.
Settled(call, detected, result) ==
    [pc |-> "done", op |-> call.op, symbol |-> call.symbol, module |-> call.module,
     probes |-> call.probes, log |-> call.log,
     detected |-> detected, result |-> result,
     replaced |-> (getModule(modules, call.symbol.language) # call.module)]

\* what a request returns once detection has ended with `detected`
Outcome(op, symbol, module, detected) ==
    CASE op = "detectFramework" -> DetectOutcome(detected)
      [] op = "generateDebugConfig" -> DebugOutcome(symbol, module, detected)
      [] op = "generateTestConfig" -> TestOutcome(symbol, detected)

\* Outcome, computed once for every request, symbol, module and framework
Outcomes ==
    [op \in Ops |-> [symbol \in Symbols |-> [module \in ModuleIds |->
        [detected \in FrameworkIds \cup {None} |->
            Outcome(op, symbol, module, detected)]]]]

\* detection has ended with `detected`; the request runs to its return
Done(call, detected) ==
    Settled(call, detected,
            IF CapturedModule(call, modules) = None
            THEN Outcome(call.op, call.symbol, None, detected)
            ELSE Outcomes[call.op][call.symbol][CapturedModule(call, modules)][detected])

\* matchesFramework's catch block, entered when the probe of `pattern` threw:
\* it holds a comment only, so the request's log output stays as it is
Caught(log, pattern) == log

\* every pattern of every framework
Patterns ==
    UNION { { Framework(fw).filePatterns[i] : i \in 1..Len(Framework(fw).filePatterns) } :
            fw \in FrameworkIds }

\* whether findFiles finds a file, computed once for every pattern and file
\* set: the triples <<pattern, files of the workspace, some file found>>
Found ==
    { <<pattern, fs, FindFiles(pattern, fs) # {}>> :
        pattern \in Patterns, fs \in SUBSET WorkspaceFiles }

\* the outcomes findFiles can have for a pattern: at most one file, or a throw
ProbeOutcomes(call, pattern) ==
    { IF <<pattern, files, TRUE>> \in Found THEN "match" ELSE "empty" }
    \cup
    ( IF Len(SelectSeq(call.probes, LAMBDA p : p.outcome = "throw")) < MaxProbeFailures
      THEN {"throw"} ELSE {} )

\* a caller invokes detectFramework, generateDebugConfig or generateTestConfig:
\* the synchronous part up to the first await
Start(c, op, symbol) ==
    /\ calls[c].pc = "idle"
    /\ LET m == getModule(modules, symbol.language)
           call == [op |-> op, symbol |-> symbol, module |-> m, probes |-> <<>>,
                    log |-> <<>>]
       IN  IF m = None
           THEN /\ calls' = [calls EXCEPT ![c] =
                      IF op = "generateDebugConfig"
                      THEN Settled(call, None, UnregisteredLanguage(symbol))
                      ELSE Resuming(call)]
                /\ UNCHANGED frameworks
           ELSE LET sorted == SortByPriority(frameworks[m])
                    fi == NextProbe(sorted, 1)
                IN  /\ frameworks' = [frameworks EXCEPT ![m] = sorted]
                    /\ calls' = [calls EXCEPT ![c] =
                          IF fi = 0 THEN Resuming(call)
                          ELSE Probing(call, fi, sorted[fi], 1)]
    /\ UNCHANGED <<modules, files, regOps, editorVars>>

\* the pending findFiles of a request settles and the request runs on to its
\* next await or to its end
ProbeReturn(c) ==
    /\ calls[c].pc = "probing"
    /\ LET call == calls[c]
           patterns == Framework(call.framework).filePatterns
           pattern == patterns[call.pi]
       IN  \E outcome \in ProbeOutcomes(call, pattern) :
             LET probed == [call EXCEPT
                              !.probes = Append(@, [framework |-> call.framework,
                                                    pattern |-> pattern,
                                                    outcome |-> outcome]),
                              !.log = IF outcome = "throw" THEN Caught(@, pattern)
                                      ELSE @]
                 arr == frameworks[call.module]
                 fi == NextProbe(arr, call.fi + 1)
             IN  calls' = [calls EXCEPT ![c] =
                    IF outcome = "match" THEN Done(probed, call.framework)
                    ELSE IF ~PatternsExhausted(call.pi, patterns, outcome)
                    THEN Probing(probed, call.fi, call.framework, call.pi + 1)
                    ELSE IF fi = 0 THEN Done(probed, None)
                    ELSE Probing(probed, fi, arr[fi], 1)]
    /\ UNCHANGED <<modules, frameworks, files, regOps, editorVars>>

\* variant: the awaited promise is never delivered to the caller
ResumeNever(c) ==
    /\ calls[c].pc = "resuming"
    /\ UNCHANGED vars

\* a request that had nothing to probe resumes after its await
Resume(c) ==
    /\ calls[c].pc = "resuming"
    /\ calls' = [calls EXCEPT ![c] = Done(calls[c], None)]
    /\ UNCHANGED <<modules, frameworks, files, regOps, editorVars>>

\* the caller takes the result
Return(c) ==
    /\ calls[c].pc = "done"
    /\ calls' = [calls EXCEPT ![c] = Idle]
    /\ UNCHANGED <<modules, frameworks, files, regOps, editorVars>>

\* register(module)
Register(m) ==
    /\ regOps < MaxRegistryOps
    /\ modules' = MapSet(modules, Module(m).language, m)
    /\ regOps' = regOps + 1
    /\ UNCHANGED <<frameworks, files, calls, editorVars>>

\* unregister(language)
Unregister(language) ==
    /\ regOps < MaxRegistryOps
    /\ modules' = MapDelete(modules, language)
    /\ regOps' = regOps + 1
    /\ UNCHANGED <<frameworks, files, calls, editorVars>>

\* getFrameworkInfo(language): sorts the module's array before projecting it
GetFrameworkInfo(language) ==
    /\ getModule(modules, language) # None
    /\ frameworks' = [frameworks EXCEPT ![getModule(modules, language)] =
                         SortByPriority(@)]
    /\ UNCHANGED <<modules, files, calls, regOps, editorVars>>

\* getModuleByExtension(extension): the first module, in the Map's iteration
\* order, whose fileExtensions include the lower-cased argument
getModuleByExtension(map, extension) ==
    LET hits == { i \in 1..Len(map) :
                    SeqIncludes(Module(map[i].value).fileExtensions,
                                ToLowerCase(extension)) }
    IN  IF hits = {} THEN None
        ELSE map[CHOOSE i \in hits : \A j \in hits : i <= j].value

\* a caller invokes getModuleByExtension: synchronous, it settles at once
GetModuleByExtension(c, extension) ==
    /\ calls[c].pc = "idle"
    /\ calls' = [calls EXCEPT ![c] =
          [pc |-> "done", op |-> "getModuleByExtension", extension |-> extension,
           module |-> None, probes |-> <<>>, log |-> <<>>, detected |-> None,
           result |-> getModuleByExtension(modules, extension)]]
    /\ UNCHANGED <<modules, frameworks, files, regOps, editorVars>>

\* new LanguageModuleRegistry(): registerDefaultModules
Init ==
    /\ modules = MapSet(MapSet(MapSet(<<>>, "python", "pythonModule"),
                               "go", "golangModule"),
                        "javascript", "javascriptModule")
    /\ frameworks = [m \in ModuleIds |-> Module(m).frameworks]
    /\ files \in { fs \in SUBSET WorkspaceFiles : Cardinality(fs) <= MaxFiles }
    /\ calls = [c \in CallIds |-> Idle]
    /\ regOps = 0
    /\ EditorNotOpened

Next ==
    \/ \E c \in CallIds, op \in Ops, symbol \in Symbols : Start(c, op, symbol)
    \/ \E c \in CallIds : ProbeReturn(c)
    \/ \E c \in CallIds : Resume(c)
    \/ \E c \in CallIds : Return(c)
    \/ \E m \in ModuleIds : Register(m)
    \/ \E language \in Languages : Unregister(language)
    \/ \E language \in Languages : GetFrameworkInfo(language)
    \/ \E c \in CallIds, extension \in Extensions : GetModuleByExtension(c, extension)

Spec == Init /\ [][Next]_vars

\* every pending findFiles settles and every settled promise is delivered:
\* the editor answers each probe and the event loop runs each continuation
Fairness ==
    \A c \in CallIds : WF_vars(ProbeReturn(c)) /\ WF_vars(Resume(c))

SpecLive == Init /\ [][Next]_vars /\ Fairness

(***************************************************************************)
(* The factories of the modules called directly, as the repository's tests *)
(* call golangModule.defaultConfig: every factory on every input below     *)
(***************************************************************************)
GenRoots == {"/workspace", "/app", "C:\\proj", ""}

GenFilePaths ==
    {"/workspace/main.go", "/workspace/pkg/math_test.go", "/workspace/utils.go",
     "/workspace/tests/test_example.py", "/workspace/src/app.test.ts",
     "/workspace2/a.go", "/app/main.go", "/app/src/app/util_test.go",
     "/app/src/app/views.py", "/app/web/index.tsx", "/application/x.go",
     "C:\\proj\\pkg\\a_test.go", "main.go", "/other/lib/x.go"}

GenNames == {"TestAddition", "BenchmarkAddition", "ExampleParse", "main",
             "calculateSum", "test_example"}

GenPaths(name) == { <<name>>, <<"main", name>>, <<"TestClass", name>>, <<"pkg">> }

\* the language key of the module that owns framework fw
FrameworkLanguage(fw) ==
    Module(CHOOSE m \in ModuleIds : SeqIncludes(Module(m).frameworks, fw)).language

GenSymbols(fw) ==
    UNION { { Sym(name, path, FrameworkLanguage(fw), filePath, root) :
                path \in GenPaths(name), filePath \in GenFilePaths, root \in GenRoots } :
            name \in GenNames }

Generated(op, owner, symbol, result) ==
    [pc |-> "done", op |-> op, owner |-> owner, symbol |-> symbol, result |-> result]

\* module.defaultConfig(filePath, workspaceRoot)
CallDefaultConfig(c, m, filePath, workspaceRoot) ==
    /\ calls[c].pc = "idle"
    /\ calls' = [calls EXCEPT ![c] =
          Generated("defaultConfig", m,
                    Sym("", <<>>, Module(m).language, filePath, workspaceRoot),
                    [kind |-> "config",
                     config |-> ModuleDefaultConfig(m, filePath, workspaceRoot)])]
    /\ UNCHANGED <<modules, frameworks, files, regOps, editorVars>>

\* framework.debugConfig(symbol)
CallDebugConfig(c, fw, symbol) ==
    /\ calls[c].pc = "idle"
    /\ calls' = [calls EXCEPT ![c] =
          Generated("debugConfig", fw, symbol,
                    [kind |-> "config", config |-> FrameworkDebugConfig(fw, symbol)])]
    /\ UNCHANGED <<modules, frameworks, files, regOps, editorVars>>

\* framework.testConfig(symbol)
CallTestConfig(c, fw, symbol) ==
    /\ calls[c].pc = "idle"
    /\ Framework(fw).hasTestConfig
    /\ calls' = [calls EXCEPT ![c] =
          Generated("testConfig", fw, symbol,
                    [kind |-> "testConfig", config |-> FrameworkTestConfig(fw, symbol)])]
    /\ UNCHANGED <<modules, frameworks, files, regOps, editorVars>>

InitGen ==
    /\ modules = MapSet(MapSet(MapSet(<<>>, "python", "pythonModule"),
                               "go", "golangModule"),
                        "javascript", "javascriptModule")
    /\ frameworks = [m \in ModuleIds |-> Module(m).frameworks]
    /\ files \in { fs \in SUBSET WorkspaceFiles : Cardinality(fs) <= MaxFiles }
    /\ calls = [c \in CallIds |-> Idle]
    /\ regOps = 0
    /\ EditorNotOpened

\* a factory is called when the previous result has been taken
NextGen ==
    \/ \E c \in CallIds : calls[c].pc = "idle" /\
          \E m \in ModuleIds, filePath \in GenFilePaths, root \in GenRoots :
             CallDefaultConfig(c, m, filePath, root)
    \/ \E c \in CallIds : calls[c].pc = "idle" /\
          \E fw \in FrameworkIds : \E symbol \in GenSymbols(fw) :
             CallDebugConfig(c, fw, symbol)
    \/ \E c \in CallIds : calls[c].pc = "idle" /\
          \E fw \in FrameworkIds : \E symbol \in GenSymbols(fw) :
             CallTestConfig(c, fw, symbol)
    \/ \E c \in CallIds : Return(c)

SpecGen == InitGen /\ [][NextGen]_vars

(***************************************************************************)
(* The configuration editor (configurationEditor)                          *)
(***************************************************************************)
\* the names and the bodies the configurations of the store and of the
\* form can have
ConfigNames == {"app", "tests", "cli"}

Programs == {"app.py", "cli.py"}

LaunchConfigurations == [name : ConfigNames, program : Programs]

\* at most this many messages come from the webview
MaxMessages == 2

\* launch.json when the editor is opened
InitialConfigurations ==
    << [name |-> "app", program |-> "app.py"],
       [name |-> "tests", program |-> "app.py"] >>

\* the position of the first configuration called name, 0 when there is none
IndexOfName(configurations, name) ==
    LET hits == { i \in 1..Len(configurations) : configurations[i].name = name }
    IN  IF hits = {} THEN 0
        ELSE CHOOSE i \in hits : \A j \in hits : i <= j

\* provider.readLaunchJson(): the configurations of the store
readLaunchJson(store) == store

\* provider.updateConfiguration(oldName, newConfig), when it resolves: the
\* entry called oldName holds newConfig
updateConfiguration(store, oldName, newConfig) ==
    [store EXCEPT ![IndexOfName(store, oldName)] = newConfig]

\* how provider.updateConfiguration(oldName, ...) can end: it resolves when
\* the store has an entry called oldName, and it can always throw
UpdateOutcomes(store, oldName) ==
    {"threw"} \cup (IF IndexOfName(store, oldName) # 0 THEN {"resolved"} ELSE {})

\* how vscode.debug.startDebugging can end: it resolves to true (a session
\* runs) or to false (none does), or it throws
StartOutcomes == {"true", "false", "threw"}

\* variant: the store is not searched for the new name
existingConfigNone(configurations, newName) == Undefined

\* launchJson.configurations.find(config => config.name === newName)
existingConfig(configurations, newName) ==
    IF IndexOfName(configurations, newName) = 0 THEN Undefined
    ELSE configurations[IndexOfName(configurations, newName)]

\* panel.webview.postMessage({ command: 'showError', message })
ShowError(message) == [command |-> "showError", message |-> message]

AlreadyExists(newName) ==
    "Configuration name \"" \o newName \o
    "\" already exists. Please choose a different name."

FailedTo(command) ==
    IF command = "runConfiguration" THEN "Failed to run configuration: Error"
    ELSE "Failed to debug configuration: Error"

\* a run of the callback suspended in the await of `pc`; did lists what it
\* has called and how each awaited call ended
Handling(pc, command, config, did) ==
    [pc |-> pc, command |-> command, config |-> config, did |-> did]

Commands == {"runConfiguration", "debugConfiguration", "saveConfiguration"}

\* the webview sends runConfiguration, debugConfiguration or
\* saveConfiguration with the form's configuration: the callback runs up to
\* its first await
Receive(h, command, config) ==
    /\ panel.open
    /\ handlers[h].pc = "idle"
    /\ received < MaxMessages
    /\ received' = received + 1
    /\ handlers' = [handlers EXCEPT ![h] =
          IF command = "saveConfiguration" /\ config.name # panel.launchConfig.name
          THEN Handling("readLaunchJson", command, config, <<"readLaunchJson">>)
          ELSE Handling("updateConfiguration", command, config,
                        <<"updateConfiguration">>)]
    /\ UNCHANGED <<launchJson, panel, sessions, registryVars>>

\* the webview sends cancel
Cancel ==
    /\ panel.open
    /\ received < MaxMessages
    /\ received' = received + 1
    /\ panel' = [panel EXCEPT !.open = FALSE]
    /\ UNCHANGED <<launchJson, handlers, sessions, registryVars>>

\* saveConfiguration: provider.readLaunchJson() has resolved
ReadLaunchJsonReturn(h) ==
    /\ handlers[h].pc = "readLaunchJson"
    /\ LET call == handlers[h]
           newName == call.config.name
       IN  IF existingConfig(readLaunchJson(launchJson), newName) # Undefined
           THEN /\ panel' = [panel EXCEPT
                                !.posted = Append(@, ShowError(AlreadyExists(newName)))]
                /\ handlers' = [handlers EXCEPT ![h] =
                      Handling("done", call.command, call.config,
                               call.did \o <<"resolved", "showError">>)]
           ELSE /\ handlers' = [handlers EXCEPT ![h] =
                      Handling("updateConfiguration", call.command, call.config,
                               call.did \o <<"resolved", "updateConfiguration">>)]
                /\ UNCHANGED panel
    /\ UNCHANGED <<launchJson, sessions, received, registryVars>>

\* variant: a failed update of the store does not stop run / debug
UpdateConfigurationReturnUnchecked(h) ==
    /\ handlers[h].pc = "updateConfiguration"
    /\ LET call == handlers[h]
           oldName == panel.launchConfig.name
       IN  \E outcome \in UpdateOutcomes(launchJson, oldName) :
             /\ launchJson' = IF outcome = "threw" THEN launchJson
                              ELSE updateConfiguration(launchJson, oldName, call.config)
             /\ IF call.command = "saveConfiguration" /\ outcome = "threw"
                THEN /\ handlers' = [handlers EXCEPT ![h] =
                           Handling("done", call.command, call.config,
                                    call.did \o <<"threw", "showErrorMessage">>)]
                     /\ UNCHANGED panel
                ELSE IF call.command = "saveConfiguration"
                THEN /\ handlers' = [handlers EXCEPT ![h] =
                           Handling("done", call.command, call.config,
                                    call.did \o <<"resolved", "showInformationMessage",
                                                  "dispose">>)]
                     /\ panel' = [panel EXCEPT !.open = FALSE]
                ELSE /\ handlers' = [handlers EXCEPT ![h] =
                           Handling("startDebugging", call.command, call.config,
                                    call.did \o <<outcome, "startDebugging">>)]
                     /\ UNCHANGED panel
    /\ UNCHANGED <<sessions, received, registryVars>>

\* provider.updateConfiguration(name, message.config) has settled: run and
\* debug go on to start the session, save closes the panel; a throw lands in
\* the handler's catch
UpdateConfigurationReturn(h) ==
    /\ handlers[h].pc = "updateConfiguration"
    /\ LET call == handlers[h]
           oldName == panel.launchConfig.name
       IN  \E outcome \in UpdateOutcomes(launchJson, oldName) :
             IF outcome = "threw"
             THEN /\ UNCHANGED launchJson
                  /\ IF call.command = "saveConfiguration"
                     THEN /\ handlers' = [handlers EXCEPT ![h] =
                                Handling("done", call.command, call.config,
                                         call.did \o <<"threw", "showErrorMessage">>)]
                          /\ UNCHANGED panel
                     ELSE /\ handlers' = [handlers EXCEPT ![h] =
                                Handling("done", call.command, call.config,
                                         call.did \o <<"threw", "showError">>)]
                          /\ panel' = [panel EXCEPT
                                !.posted = Append(@, ShowError(FailedTo(call.command)))]
             ELSE /\ launchJson' = updateConfiguration(launchJson, oldName, call.config)
                  /\ IF call.command = "saveConfiguration"
                     THEN /\ handlers' = [handlers EXCEPT ![h] =
                                Handling("done", call.command, call.config,
                                         call.did \o <<"resolved", "showInformationMessage",
                                                       "dispose">>)]
                          /\ panel' = [panel EXCEPT !.open = FALSE]
                     ELSE /\ handlers' = [handlers EXCEPT ![h] =
                                Handling("startDebugging", call.command, call.config,
                                         call.did \o <<"resolved", "startDebugging">>)]
                          /\ UNCHANGED panel
    /\ UNCHANGED <<sessions, received, registryVars>>

\* vscode.debug.startDebugging(undefined, configToRun) has settled
StartDebuggingReturn(h) ==
    /\ handlers[h].pc = "startDebugging"
    /\ LET call == handlers[h]
       IN  \E outcome \in StartOutcomes :
             /\ sessions' = IF outcome = "true" THEN Append(sessions, call.config)
                            ELSE sessions
             /\ IF outcome = "threw"
                THEN /\ handlers' = [handlers EXCEPT ![h] =
                           Handling("done", call.command, call.config,
                                    call.did \o <<"threw", "showError">>)]
                     /\ panel' = [panel EXCEPT
                           !.posted = Append(@, ShowError(FailedTo(call.command)))]
                ELSE /\ handlers' = [handlers EXCEPT ![h] =
                           Handling("done", call.command, call.config,
                                    call.did \o <<"resolved", "showInformationMessage",
                                                  "dispose">>)]
                     /\ panel' = [panel EXCEPT !.open = FALSE]
    /\ UNCHANGED <<launchJson, received, registryVars>>

\* the callback's promise has settled
Finish(h) ==
    /\ handlers[h].pc = "done"
    /\ handlers' = [handlers EXCEPT ![h] = HandlerIdle]
    /\ UNCHANGED <<launchJson, panel, sessions, received, registryVars>>

\* openConfigurationEditor(config, provider) on a configuration of the store
InitEditor ==
    /\ modules = MapSet(MapSet(MapSet(<<>>, "python", "pythonModule"),
                               "go", "golangModule"),
                        "javascript", "javascriptModule")
    /\ frameworks = [m \in ModuleIds |-> Module(m).frameworks]
    /\ files = {}
    /\ calls = [c \in CallIds |-> Idle]
    /\ regOps = 0
    /\ launchJson = InitialConfigurations
    /\ \E i \in 1..Len(InitialConfigurations) :
          panel = [open |-> TRUE, launchConfig |-> InitialConfigurations[i],
                   posted |-> <<>>]
    /\ handlers = [h \in HandlerIds |-> HandlerIdle]
    /\ sessions = <<>>
    /\ received = 0

NextEditor ==
    \/ \E h \in HandlerIds, command \in Commands, config \in LaunchConfigurations :
          Receive(h, command, config)
    \/ Cancel
    \/ \E h \in HandlerIds : ReadLaunchJsonReturn(h)
    \/ \E h \in HandlerIds : UpdateConfigurationReturn(h)
    \/ \E h \in HandlerIds : StartDebuggingReturn(h)
    \/ \E h \in HandlerIds : Finish(h)

SpecEditor == InitEditor /\ [][NextEditor]_vars

(***************************************************************************)
(* Vocabulary of the properties                                            *)
(***************************************************************************)
DoneCalls == { c \in CallIds : calls[c].pc = "done" }

\* the probe of pattern number i of framework fw threw in this request
Threw(call, fw, pattern) ==
    \E k \in 1..Len(call.probes) :
        /\ call.probes[k].framework = fw
        /\ call.probes[k].pattern = pattern
        /\ call.probes[k].outcome = "throw"

ThrewSome(call) ==
    \E k \in 1..Len(call.probes) : call.probes[k].outcome = "throw"

\* framework fw matches the workspace for this request: one of its patterns
\* finds a file, a pattern whose probe threw counting as finding none
Matches(call, fw) ==
    \E i \in 1..Len(Framework(fw).filePatterns) :
        LET pattern == Framework(fw).filePatterns[i]
        IN  /\ \E f \in files : GlobMatches(pattern, f)
            /\ ~Threw(call, fw, pattern)

\* the framework detection has to choose from the list `declared`, the one a
\* module was registered with: the matching framework of highest priority,
\* the earliest in the list among equals; None when none matches
Preferred(call, declared) ==
    LET cands == { i \in 1..Len(declared) : Matches(call, declared[i]) }
    IN  IF cands = {} THEN None
        ELSE declared[CHOOSE i \in cands : \A j \in cands \ {i} :
                 \/ Framework(declared[i]).priority > Framework(declared[j]).priority
                 \/ /\ Framework(declared[i]).priority = Framework(declared[j]).priority
                    /\ i < j]

\* is the language a key of the registry's map
Registered(language) == \E i \in 1..Len(modules) : modules[i].key = language

(***************************************************************************)
(* Properties                                                              *)
(***************************************************************************)
\* C1: a generateDebugConfig call for a symbol whose language has no
\* registered module when the call is made fails at once with the
\* UnregisteredLanguage error and returns no configuration.
C1_UnregisteredDebugFails ==
    [][\A c \in CallIds :
          ( /\ calls[c].pc = "idle"
            /\ calls'[c].pc # "idle"
            /\ calls'[c].op = "generateDebugConfig"
            /\ ~Registered(calls'[c].symbol.language) )
          => /\ calls'[c].pc = "done"
             /\ calls'[c].result.kind = "error"
             /\ calls'[c].result.message
                  = "No module registered for language: " \o calls'[c].symbol.language]_vars

C1_Witness ==
    \E c \in DoneCalls :
        /\ calls[c].op = "generateDebugConfig"
        /\ calls[c].module = None
        /\ calls[c].result.kind = "error"

\* C2: when a module holds two frameworks of different priority and both
\* match the workspace, detection returns the one of higher priority, whether
\* the module lists it first or second.
C2_HigherPriorityWins ==
    \A c \in DoneCalls :
        calls[c].module # None =>
            LET declared == Module(calls[c].module).frameworks
            IN  \A i, j \in 1..Len(declared) :
                    ( /\ Framework(declared[i]).priority > Framework(declared[j]).priority
                      /\ Matches(calls[c], declared[i])
                      /\ Matches(calls[c], declared[j]) )
                    => /\ calls[c].detected = declared[i]
                       /\ calls[c].op = "detectFramework"
                            => calls[c].result
                                 = [kind |-> "framework", framework |-> declared[i]]

C2_Witness ==
    \E c \in DoneCalls :
        /\ calls[c].op = "detectFramework"
        /\ calls[c].module = "golangReloaded"
        /\ SubSeq(Module("golangReloaded").frameworks, 1, 2) = <<"go-run", "go-bench">>
        /\ Matches(calls[c], "go-run")
        /\ Matches(calls[c], "go-bench")
        /\ calls[c].result = [kind |-> "framework", framework |-> "go-bench"]

C4_ProbeFailureIsNoMatch ==
    \A c \in CallIds :
        ( calls[c].pc \in {"probing", "done"} /\ ThrewSome(calls[c]) ) =>
            LET call == calls[c]
                declared == Module(call.module).frameworks
                n == Len(call.probes)
                last == call.probes[n]
                patterns == Framework(last.framework).filePatterns
            IN  /\ call.pc = "done" =>
                     /\ call.result.kind # "error"
                     /\ call.detected = Preferred(call, declared)
                \* after a throw on a pattern that is not the framework's last,
                \* the next pattern of the same framework is probed
                /\ ( last.outcome = "throw" /\ last.pattern # patterns[Len(patterns)] )
                   => /\ call.pc = "probing"
                      /\ call.framework = last.framework
                      /\ \E i \in 1..(Len(patterns) - 1) :
                            patterns[i] = last.pattern /\ call.pi = i + 1
                \* after a throw on a framework's last pattern, detection goes
                \* on with a framework of lower or equal priority, if any is left
                /\ ( last.outcome = "throw" /\ last.pattern = patterns[Len(patterns)] )
                   => \/ /\ call.pc = "probing"
                         /\ call.framework # last.framework
                         /\ call.pi = 1
                      \/ /\ call.pc = "done"
                         /\ call.detected = None
                         /\ \A i \in 1..Len(declared) :
                               \E k \in 1..n : call.probes[k].framework = declared[i]

C4_Witness ==
    \E c \in DoneCalls :
        /\ calls[c].detected # None
        /\ \E k \in 1..Len(calls[c].probes) :
              /\ calls[c].probes[k].outcome = "throw"
              /\ \E f \in files : GlobMatches(calls[c].probes[k].pattern, f)
              /\ calls[c].probes[k].framework # calls[c].detected
              /\ calls[c].probes[k].pattern # calls[c].probes[k + 1].pattern

\* C5: generateTestConfig returns the absent value, and no error, when no
\* framework was detected or the detected framework has no testConfig, and
\* the detected framework's testConfig(symbol) otherwise; a lower-priority
\* matching framework that has a testConfig is not used in place of a
\* detected framework that has none.
C5_TestConfigOrAbsent ==
    \A c \in DoneCalls :
        calls[c].op = "generateTestConfig" =>
            LET call == calls[c]
                detected == IF call.module = None THEN None
                            ELSE Preferred(call, Module(call.module).frameworks)
            IN  IF detected \in {"pytest", "go-test", "jest", "mocha", "go-run"}
                THEN call.result = [kind |-> "testConfig",
                                    config |-> FrameworkTestConfig(detected, call.symbol)]
                ELSE call.result = [kind |-> "null"]

C5_Witness ==
    \E c \in DoneCalls :
        /\ calls[c].op = "generateTestConfig"
        /\ calls[c].module = "golangReloaded"
        /\ calls[c].detected = "go-bench"
        /\ Matches(calls[c], "go-run")
        /\ calls[c].result = [kind |-> "null"]

\* C6: a generateTestConfig call for a symbol whose language has no
\* registered module fails with the UnregisteredLanguage error.
C6_UnregisteredTestFails ==
    \A c \in DoneCalls :
        ( calls[c].op = "generateTestConfig" /\ calls[c].module = None )
        => calls[c].result.kind = "error"

\* C7: the outcome of a request is that of the module that was registered
\* for the symbol's language when the request started, whatever register and
\* unregister calls run while it is suspended: every probed framework, the
\* framework factory and the default factory are that module's.
C7_OutcomeFromModuleAtStart ==
    \A c \in CallIds :
        ( calls[c].pc # "idle" /\ calls[c].module # None ) =>
            LET call == calls[c]
                declared == Module(call.module).frameworks
                detected == Preferred(call, declared)
            IN  /\ \A k \in 1..Len(call.probes) :
                      /\ SeqIncludes(declared, call.probes[k].framework)
                      /\ SeqIncludes(Framework(call.probes[k].framework).filePatterns,
                                     call.probes[k].pattern)
                /\ call.pc = "done" =>
                      call.result =
                        CASE call.op = "detectFramework" ->
                               IF detected = None THEN [kind |-> "null"]
                               ELSE [kind |-> "framework", framework |-> detected]
                          [] call.op = "generateDebugConfig" ->
                               [kind |-> "config",
                                config |-> IF detected = None
                                           THEN ModuleDefaultConfig(call.module,
                                                    call.symbol.filePath,
                                                    call.symbol.workspaceRoot)
                                           ELSE FrameworkDebugConfig(detected, call.symbol)]
                          [] call.op = "generateTestConfig" ->
                               IF detected \in {"pytest", "go-test", "jest", "mocha",
                                                "go-run"}
                               THEN [kind |-> "testConfig",
                                     config |-> FrameworkTestConfig(detected, call.symbol)]
                               ELSE [kind |-> "null"]

C7_Witness ==
    \E c \in DoneCalls :
        /\ calls[c].op = "generateDebugConfig"
        /\ calls[c].module = "golangModule"
        /\ calls[c].replaced
        /\ getModule(modules, "go") = "golangReloaded"
        /\ Len(calls[c].probes) = 5
        /\ calls[c].detected = None
        /\ calls[c].result.config.name = "Go: Launch Tests"

\* C8: for a Go symbol whose name starts with Test, Benchmark or Example and
\* whose file ends with _test.go, the config generateDebugConfig returns has
\* mode "test" and args holding "-test.run" and the anchored "^<name>$".
C8_GoTestSymbolRunsItsTest ==
    \A c \in DoneCalls :
        ( /\ calls[c].op = "generateDebugConfig"
          /\ calls[c].module = "golangModule"
          /\ \/ StartsWith(calls[c].symbol.name, "Test")
             \/ StartsWith(calls[c].symbol.name, "Benchmark")
             \/ StartsWith(calls[c].symbol.name, "Example")
          /\ EndsWith(calls[c].symbol.filePath, "_test.go") )
        => /\ calls[c].result.kind = "config"
           /\ calls[c].result.config.mode = "test"
           /\ SeqIncludes(calls[c].result.config.args, "-test.run")
           /\ SeqIncludes(calls[c].result.config.args,
                          "^" \o calls[c].symbol.name \o "$")

\* C9: for a Go symbol named main whose path holds the segment main, the
\* config generateDebugConfig returns has mode "debug".
C9_GoMainSymbolDebugs ==
    \A c \in DoneCalls :
        ( /\ calls[c].op = "generateDebugConfig"
          /\ calls[c].module = "golangModule"
          /\ calls[c].symbol.name = "main"
          /\ \E i \in 1..Len(calls[c].symbol.path) : calls[c].symbol.path[i] = "main" )
        => /\ calls[c].result.kind = "config"
           /\ calls[c].result.config.mode = "debug"

\* filePath lies under workspaceRoot: the root followed by a path separator
Under(filePath, workspaceRoot) ==
    /\ workspaceRoot # ""
    /\ \/ StartsWith(filePath, workspaceRoot \o "/")
       \/ StartsWith(filePath, workspaceRoot \o "\\")

\* the directory / program fields of a generated config
LocationFields(config) ==
    { config[k] : k \in DOMAIN config \cap {"program", "cwd"} }
    \cup ( IF "windows" \in DOMAIN config THEN {config.windows.program} ELSE {} )

\* the modules the extension ships, and their frameworks
ShippedOwners ==
    {"pythonModule", "golangModule", "javascriptModule",
     "pytest", "unittest", "go-test", "go-main", "jest", "mocha"}

\* the configs produced by the shipped generators
GeneratedConfigs ==
    { c \in DoneCalls : /\ calls[c].op \in {"defaultConfig", "debugConfig"}
                        /\ calls[c].owner \in ShippedOwners }

\* C10, as stated: for a symbol whose file lies under its workspaceRoot, no
\* directory / program field of the generated config holds the workspaceRoot
\* string as a substring.
C10_NoRootSubstring ==
    \A c \in GeneratedConfigs :
        Under(calls[c].symbol.filePath, calls[c].symbol.workspaceRoot) =>
            \A v \in LocationFields(calls[c].result.config) :
                ~Includes(v, calls[c].symbol.workspaceRoot)

\* C10, amended: for a symbol whose file lies under its workspaceRoot, every
\* directory / program field of the generated config is the ${file} token or
\* begins with the ${workspaceFolder} token, and never begins with
\* workspaceRoot.
C10_LocationUsesTemplateToken ==
    \A c \in GeneratedConfigs :
        LET filePath == calls[c].symbol.filePath
            root == calls[c].symbol.workspaceRoot
        IN  Under(filePath, root) =>
              \A v \in LocationFields(calls[c].result.config) :
                  /\ v = "${file}" \/ StartsWith(v, "${workspaceFolder}")
                  /\ ~StartsWith(v, root)

C10_Witness ==
    \E c \in GeneratedConfigs :
        /\ calls[c].op = "debugConfig"
        /\ calls[c].owner = "go-test"
        /\ calls[c].symbol.filePath = "/app/src/app/util_test.go"
        /\ calls[c].symbol.workspaceRoot = "/app"
        /\ calls[c].result.config.program = "${workspaceFolder}/src/app"

\* C11: when pytest is the framework detected for a Python symbol, the
\* reference in the generated config (the last of args, in the debug config
\* and in the test config) is the file path relative to the workspace folder,
\* then "::", then every segment of symbol.path joined by "::".
C11_PytestReference ==
    \A c \in DoneCalls :
        ( /\ calls[c].op \in {"generateDebugConfig", "generateTestConfig"}
          /\ calls[c].module = "pythonModule"
          /\ calls[c].detected = "pytest"
          /\ Under(calls[c].symbol.filePath, calls[c].symbol.workspaceRoot) )
        => LET symbol == calls[c].symbol
               args == calls[c].result.config.args
               relative == SubstringFrom(symbol.filePath, Len(symbol.workspaceRoot) + 1)
           IN  /\ ~StartsWith(relative, "/")
               /\ args[Len(args)] = relative \o "::" \o Join(symbol.path, "::")
               /\ \A i \in 1..Len(symbol.path) :
                     Includes(args[Len(args)], symbol.path[i])

C11_Witness ==
    \E c \in DoneCalls :
        /\ calls[c].op = "generateDebugConfig"
        /\ calls[c].detected = "pytest"
        /\ calls[c].symbol.path = <<"TestClass", "test_example">>
        /\ calls[c].result.config.args
             = <<"-s", "-v", "tests/test_example.py::TestClass::test_example">>

C13_FrameworkListAsRegistered ==
    \A m \in ModuleIds : frameworks[m] = Module(m).frameworks

\* the module a generator belongs to: the module itself for a defaultConfig,
\* the module that lists the framework for a debugConfig
OwnerModule(owner) ==
    IF owner \in ModuleIds THEN owner
    ELSE CHOOSE m \in ModuleIds : SeqIncludes(Module(m).frameworks, owner)

\* C14: every config a generator of the three built-in modules produces
\* (each framework's debugConfig and each module's defaultConfig, on every
\* branch) has the fields type, name and request, request being "launch" and
\* type the module's defaultDebugType.
C14_RequiredFields ==
    \A c \in GeneratedConfigs :
        LET config == calls[c].result.config
        IN  /\ {"type", "name", "request"} \subseteq DOMAIN config
            /\ config.request = "launch"
            /\ config.type = Module(OwnerModule(calls[c].owner)).defaultDebugType
            /\ Len(config.name) > 0

C14_Witness ==
    \E c \in GeneratedConfigs :
        /\ calls[c].op = "debugConfig"
        /\ calls[c].owner = "go-main"
        /\ ~isGoTestFunction(calls[c].symbol)
        /\ ~isGoMainFunction(calls[c].symbol)
        /\ calls[c].result.config.mode = "auto"
        /\ calls[c].result.config.request = "launch"
        /\ calls[c].result.config.type = "go"

\* C15: for every Go or Python symbol, the config generateDebugConfig
\* returns has the debug type of the language ("go" / "python") and a name
\* that contains the symbol's name.
C15_TypeAndSymbolName ==
    \A c \in DoneCalls :
        ( /\ calls[c].op = "generateDebugConfig"
          /\ calls[c].module \in {"golangModule", "pythonModule"} )
        => /\ calls[c].result.kind = "config"
           /\ calls[c].result.config.type = calls[c].symbol.language
           /\ Includes(calls[c].result.config.name, calls[c].symbol.name)

\* C16: golangModule.defaultConfig returns, for a file named main.go, a
\* config whose name contains "Launch Main Package" and whose mode is
\* "debug", and for a file whose name ends with _test.go, a config whose name
\* contains "Launch Tests" and whose mode is "test".
C16_GoDefaultConfigNames ==
    \A c \in DoneCalls :
        ( calls[c].op = "defaultConfig" /\ calls[c].owner = "golangModule" )
        => LET fileName == BaseName(calls[c].symbol.filePath)
               config == calls[c].result.config
           IN  /\ fileName = "main.go"
                     => /\ Includes(config.name, "Launch Main Package")
                        /\ config.mode = "debug"
               /\ ( fileName # "main.go" /\ EndsWith(fileName, "_test.go") )
                     => /\ Includes(config.name, "Launch Tests")
                        /\ config.mode = "test"

\* C17: getModuleByExtension(e) matches ignoring letter case: it returns the
\* earliest module of the registry one of whose declared extensions equals e
\* up to letter case, and the absent value exactly when no registered module
\* declares such an extension.
C17_ExtensionIgnoringCase ==
    \A c \in DoneCalls :
        calls[c].op = "getModuleByExtension" =>
            LET claimants ==
                  { i \in 1..Len(modules) :
                      \E j \in 1..Len(Module(modules[i].value).fileExtensions) :
                          ToLowerCase(Module(modules[i].value).fileExtensions[j])
                            = ToLowerCase(calls[c].extension) }
            IN  IF claimants = {} THEN calls[c].result = None
                ELSE calls[c].result
                       = modules[CHOOSE i \in claimants :
                                    \A j \in claimants : i <= j].value

\* C18: every probe failure during detection is logged: each probe that
\* throws has produced a log record of its own by the time detection goes on
\* with the next pattern.
C18_ProbeFailuresLogged ==
    \A c \in CallIds :
        calls[c].pc \in {"probing", "done"} =>
            Len(calls[c].log)
              >= Len(SelectSeq(calls[c].probes, LAMBDA p : p.outcome = "throw"))

\* the defaultConfig calls on the three built-in modules
DefaultConfigCalls ==
    { c \in DoneCalls :
        /\ calls[c].op = "defaultConfig"
        /\ calls[c].owner \in {"pythonModule", "golangModule", "javascriptModule"} }

PatternIndex(fw, p) ==
    CHOOSE i \in 1..Len(Framework(fw).filePatterns) : Framework(fw).filePatterns[i] = p

\* C20: within one call, probes are issued framework by framework in
\* descending priority and, inside a framework, pattern by pattern in list
\* order; no probe follows a probe that matched; and a framework is probed
\* only after every pattern of every framework of higher priority has been
\* probed without a match.
C20_ProbeOrder ==
    \A c \in CallIds :
        ( calls[c].pc \in {"probing", "done"} /\ calls[c].module # None ) =>
            LET call == calls[c]
                declared == Module(call.module).frameworks
                n == Len(call.probes)
                \* the probes made, followed by the one in flight
                issued == IF call.pc = "probing"
                          THEN Append(call.probes,
                                      [framework |-> call.framework,
                                       pattern |-> Framework(call.framework)
                                                     .filePatterns[call.pi],
                                       outcome |-> "pending"])
                          ELSE call.probes
            IN  /\ \A k \in 1..(Len(issued) - 1) :
                      LET this == issued[k]
                          next == issued[k + 1]
                          patterns == Framework(this.framework).filePatterns
                      IN  /\ this.outcome # "match"
                          /\ Framework(this.framework).priority
                               >= Framework(next.framework).priority
                          /\ IF next.framework = this.framework
                             THEN PatternIndex(next.framework, next.pattern)
                                    = PatternIndex(this.framework, this.pattern) + 1
                             ELSE /\ this.pattern = patterns[Len(patterns)]
                                  /\ PatternIndex(next.framework, next.pattern) = 1
                /\ Len(issued) > 0 => PatternIndex(issued[1].framework, issued[1].pattern) = 1
                /\ \A k \in 1..Len(issued) : \A i \in 1..Len(declared) :
                      Framework(declared[i]).priority
                          > Framework(issued[k].framework).priority
                      => \A j \in 1..Len(Framework(declared[i]).filePatterns) :
                            \E h \in 1..(k - 1) :
                                /\ issued[h].framework = declared[i]
                                /\ issued[h].pattern = Framework(declared[i]).filePatterns[j]
                                /\ issued[h].outcome # "match"
                /\ ( call.pc = "done" /\ n > 0 /\ call.probes[n].outcome = "match" )
                      => call.detected = call.probes[n].framework

C20_Witness ==
    \E c \in DoneCalls :
        /\ calls[c].op = "detectFramework"
        /\ calls[c].module = "golangReloaded"
        /\ Len(calls[c].probes) = 3
        /\ calls[c].probes[1].framework = "go-bench"
        /\ calls[c].probes[2].framework = "go-bench"
        /\ calls[c].probes[3] = [framework |-> "go-run", pattern |-> "**/main.go",
                                 outcome |-> "match"]
        /\ calls[c].detected = "go-run"

\* C21: when two frameworks of a module have the same priority, both match
\* the workspace and no framework of higher priority does, detectFramework
\* returns the one that comes first in the list the module was registered
\* with, on every call, whatever detectFramework and getFrameworkInfo calls
\* have sorted the list before.
C21_TieKeepsDeclaredOrder ==
    \A c \in DoneCalls :
        calls[c].module # None =>
            LET declared == Module(calls[c].module).frameworks
            IN  \A i, j \in 1..Len(declared) :
                    ( /\ i < j
                      /\ Framework(declared[i]).priority = Framework(declared[j]).priority
                      /\ Matches(calls[c], declared[i])
                      /\ Matches(calls[c], declared[j])
                      /\ \A h \in 1..Len(declared) :
                            Framework(declared[h]).priority > Framework(declared[i]).priority
                              => ~Matches(calls[c], declared[h])
                      /\ \A h \in 1..(i - 1) :
                            Framework(declared[h]).priority = Framework(declared[i]).priority
                              => ~Matches(calls[c], declared[h]) )
                    => /\ calls[c].detected = declared[i]
                       /\ calls[c].op = "detectFramework"
                            => calls[c].result
                                 = [kind |-> "framework", framework |-> declared[i]]

C21_Witness ==
    \E c \in DoneCalls :
        /\ calls[c].op = "detectFramework"
        /\ calls[c].module = "golangReloaded"
        /\ Framework("go-run").priority = Framework("go-fuzz").priority
        /\ Matches(calls[c], "go-run")
        /\ Matches(calls[c], "go-fuzz")
        /\ ~Matches(calls[c], "go-bench")
        /\ calls[c].result = [kind |-> "framework", framework |-> "go-run"]

\* the debug configs of the Go frameworks: their program field is the result
\* of the directory resolution getFileDirectoryPath(filePath, workspaceRoot)
GoDebugConfigs ==
    { c \in DoneCalls : /\ calls[c].op = "debugConfig"
                        /\ calls[c].owner \in {"go-test", "go-main"} }

\* C22: for a filePath that holds no directory separator, Go directory
\* resolution yields the token ${workspaceFolder}, whatever the workspaceRoot.
C22_NoSeparatorGivesToken ==
    \A c \in GoDebugConfigs :
        ( /\ ~Includes(calls[c].symbol.filePath, "/")
          /\ ~Includes(calls[c].symbol.filePath, "\\") )
        => calls[c].result.config.program = "${workspaceFolder}"

\* C23: for a filePath with "/" separators, Go directory resolution yields
\* ${workspaceFolder} followed by the relative directory segments exactly
\* when filePath lies under workspaceRoot (plain ${workspaceFolder} for a
\* file directly in the root), and the raw absolute directory of the file
\* whenever filePath is not under workspaceRoot, a sibling directory whose
\* name starts with the root's name included.
C23_TokenExactlyUnderRoot ==
    \A c \in GoDebugConfigs :
        LET filePath == calls[c].symbol.filePath
            root == calls[c].symbol.workspaceRoot
            program == calls[c].result.config.program
            relative == SubstringFrom(filePath, Len(root) + 1)
            relativeDir == Substring(relative, 0, LastIndexOf(relative, "/"))
        IN  ( Includes(filePath, "/") /\ ~Includes(filePath, "\\") ) =>
                IF Under(filePath, root)
                THEN program = IF relativeDir = "" THEN "${workspaceFolder}"
                               ELSE "${workspaceFolder}/" \o relativeDir
                ELSE program = Substring(filePath, 0, LastIndexOf(filePath, "/"))

\* C24: the config the unittest framework generates for a Python symbol of
\* a .py file of the workspace has, as its reference argument, the
\* workspace-relative file path without the extension, then ".", then every
\* segment of symbol.path joined by ".".
C24_UnittestReference ==
    \A c \in DoneCalls :
        ( /\ calls[c].op = "debugConfig"
          /\ calls[c].owner = "unittest"
          /\ calls[c].symbol.workspaceRoot = WorkspaceFolder
          /\ Under(calls[c].symbol.filePath, WorkspaceFolder)
          /\ EndsWith(calls[c].symbol.filePath, ".py") )
        => LET symbol == calls[c].symbol
               relative == SubstringFrom(symbol.filePath, Len(WorkspaceFolder) + 1)
               stripped == Substring(relative, 0, Len(relative) - 3)
           IN  calls[c].result.config.args
                 = << stripped \o "." \o Join(symbol.path, ".") >>

\* C25: for every symbol, the jest and the mocha debug config set the
\* ts-node loader runtime argument and the TS_NODE_PROJECT environment
\* variable under the same condition, for a file ending with .ts or .tsx and
\* for no other, so the two configs of one symbol have equal runtimeArgs and
\* equal env.
C25_SameTypeScriptCondition ==
    \A c \in DoneCalls :
        ( calls[c].op = "debugConfig" /\ calls[c].owner \in {"jest", "mocha"} )
        => LET symbol == calls[c].symbol
               config == calls[c].result.config
               other == FrameworkDebugConfig(
                            IF calls[c].owner = "jest" THEN "mocha" ELSE "jest", symbol)
               isTypeScript == \/ EndsWith(symbol.filePath, ".ts")
                               \/ EndsWith(symbol.filePath, ".tsx")
           IN  /\ config.runtimeArgs = other.runtimeArgs
               /\ config.env = other.env
               /\ config.runtimeArgs
                    = IF isTypeScript THEN <<"-r", "ts-node/register">> ELSE Undefined
               /\ config.env
                    = IF isTypeScript
                      THEN [TS_NODE_PROJECT |-> "${workspaceFolder}/tsconfig.json"]
                      ELSE Undefined

\* C26: Go symbol classification is total and exclusive.  Every symbol is
\* exactly one of test-style (file ends with _test.go and name begins with
\* Test, Benchmark or Example), entry-point (name "main" and path holding
\* "main") or plain, and the Go framework debugConfig returns a config, never
\* an error, whose mode is "test", "debug" or "auto" respectively.
C26_GoClassificationTotal ==
    \A c \in GoDebugConfigs :
        LET symbol == calls[c].symbol
            testStyle == /\ EndsWith(symbol.filePath, "_test.go")
                         /\ \/ StartsWith(symbol.name, "Test")
                            \/ StartsWith(symbol.name, "Benchmark")
                            \/ StartsWith(symbol.name, "Example")
            entryPoint == /\ symbol.name = "main"
                          /\ \E i \in 1..Len(symbol.path) : symbol.path[i] = "main"
            plain == ~testStyle /\ ~entryPoint
        IN  /\ ~(testStyle /\ entryPoint)
            /\ calls[c].result.kind = "config"
            /\ calls[c].result.config.mode \in {"test", "debug", "auto"}
            /\ calls[c].result.config.mode = "test" <=> testStyle
            /\ calls[c].result.config.mode = "debug" <=> entryPoint
            /\ calls[c].result.config.mode = "auto" <=> plain

C26_Witness ==
    \E c \in GoDebugConfigs :
        /\ calls[c].symbol.name = "main"
        /\ calls[c].symbol.path = <<"pkg">>
        /\ calls[c].symbol.filePath = "/workspace/pkg/math_test.go"
        /\ calls[c].result.config.mode = "auto"

\* the number of (framework, pattern) pairs of module m
TotalPatterns(m) ==
    LET declared == Module(m).frameworks
        count[i \in 0..Len(declared)] ==
            IF i = 0 THEN 0
            ELSE count[i - 1] + Len(Framework(declared[i]).filePatterns)
    IN  count[Len(declared)]

ConsistentProbe(call) ==
    \A k, l \in 1..Len(call.probes) :
        call.probes[k].pattern = call.probes[l].pattern =>
            call.probes[k].outcome = call.probes[l].outcome

\* C28: with the built-in Python module and a probe that answers one pattern
\* the same way throughout a call, detection never ends with unittest: its
\* patterns are all pytest patterns and pytest is probed first, so the
\* result is pytest or none.
C28_NeverUnittest ==
    \A c \in DoneCalls :
        ( calls[c].module = "pythonModule" /\ ConsistentProbe(calls[c]) ) =>
            /\ calls[c].detected \in {"pytest", None}
            /\ \A i \in 1..Len(Framework("unittest").filePatterns) :
                  \E j \in 1..Len(Framework("pytest").filePatterns) :
                      Framework("pytest").filePatterns[j] =
                          Framework("unittest").filePatterns[i]
            /\ Framework("pytest").priority > Framework("unittest").priority

C28_Witness ==
    \E c \in DoneCalls :
        /\ calls[c].op = "detectFramework"
        /\ calls[c].module = "pythonModule"
        /\ ConsistentProbe(calls[c])
        /\ ThrewSome(calls[c])
        /\ \E k \in 1..Len(calls[c].probes) : calls[c].probes[k].framework = "unittest"
        /\ calls[c].detected = None

\* the runs of the callback for `commands` that are suspended in an await
Awaiting(commands) ==
    { h \in HandlerIds : /\ handlers[h].pc \notin {"idle", "done"}
                         /\ handlers[h].command \in commands }

C30_StoreBeforeSession ==
    [][ /\ \A h \in Awaiting({"runConfiguration", "debugConfiguration"}) :
             LET call == handlers[h]
                 after == handlers'[h]
                 oldName == panel.launchConfig.name
             IN  after # call =>
                   IF call.pc = "updateConfiguration"
                   THEN /\ sessions' = sessions
                        /\ panel'.open = panel.open
                        /\ \/ /\ IndexOfName(launchJson, oldName) # 0
                              /\ launchJson' =
                                    [launchJson EXCEPT
                                        ![IndexOfName(launchJson, oldName)] = call.config]
                              /\ after.pc = "startDebugging"
                              /\ panel'.posted = panel.posted
                           \/ /\ launchJson' = launchJson
                              /\ after.pc = "done"
                              /\ ~SeqIncludes(after.did, "startDebugging")
                              /\ panel'.posted =
                                    Append(panel.posted, ShowError(FailedTo(call.command)))
                   ELSE /\ call.pc = "startDebugging"
                        /\ call.did = <<"updateConfiguration", "resolved", "startDebugging">>
                        /\ launchJson' = launchJson
                        /\ after.pc = "done"
                        /\ sessions' \in {sessions, Append(sessions, call.config)}
                        /\ \/ /\ after.did = call.did \o <<"resolved",
                                                           "showInformationMessage",
                                                           "dispose">>
                              /\ ~panel'.open
                              /\ panel'.posted = panel.posted
                           \/ /\ after.did = call.did \o <<"threw", "showError">>
                              /\ panel'.open = panel.open
                              /\ sessions' = sessions
                              /\ panel'.posted =
                                    Append(panel.posted, ShowError(FailedTo(call.command)))
        /\ sessions' # sessions =>
              \E h \in Awaiting({"runConfiguration", "debugConfiguration"}) :
                  /\ handlers[h].pc = "startDebugging"
                  /\ handlers'[h] # handlers[h] ]_vars

C30_Witness ==
    \E h \in HandlerIds :
        /\ handlers[h].pc = "done"
        /\ handlers[h].command = "debugConfiguration"
        /\ handlers[h].did = <<"updateConfiguration", "resolved", "startDebugging",
                               "resolved", "showInformationMessage", "dispose">>
        /\ sessions = <<handlers[h].config>>
        /\ \E i \in 1..Len(launchJson) : launchJson[i] = handlers[h].config
        /\ panel.posted = <<ShowError(FailedTo("runConfiguration"))>>
        /\ ~panel.open

====
